---- MODULE Spec2Model ----
(***************************************************************************)
(* Model of the recommendation feature pipeline of jmonbris/master_thesis  *)
(* (project/utils.py and project/data/data_preparation.py).                *)
(*                                                                         *)
(* Every function of the pipeline is a synchronous batch transform, so     *)
(* each one is modelled by a specification of its own: Init draws the      *)
(* function's arguments from bounded sets and one action applies the whole *)
(* function.  The variables of the other functions stay Idle meanwhile.    *)
(***************************************************************************)
EXTENDS Integers, Sequences, FiniteSets, TLC

VARIABLES
    call,                 \* the function the run calls
    pc,                   \* "start" before the call, "done" after it, "rerun" after a second call
    n, parts,             \* divide_into_three: argument n, returned tuple
    df, n_users, seed, thresholds, ignorant_proportion,   \* process_df_users_raw: arguments
    rng,                  \* the permutations RandomState(seed) yielded in the call
    sampled,              \* process_df_users_raw: what the call produced
    df_reordered, resampled,  \* a second call on the same rows in another order, and its outcome
    d, genres,            \* reformat_dict: argument d, returned dict
    vectors, priority, items_df,   \* get_items_df: the items' vectors, the strategy, the result
    users_is_read, users_thresholds, steps, read_proba,   \* get_users_df: read_proba column
    df_reference, df_compare, top_n, similarities,        \* matrix_cosine_similarity
    row, df_items, books  \* calculate_book_score: arguments row and df_items, returned dict

varsDivide   == <<n, parts>>
varsSampler  == <<df, n_users, seed, thresholds, ignorant_proportion, rng, sampled,
                  df_reordered, resampled>>
varsReformat == <<d, genres>>
varsPriority == <<vectors, priority, items_df>>
varsProba    == <<users_is_read, users_thresholds, steps, read_proba>>
varsSimilar  == <<df_reference, df_compare, top_n, similarities>>
varsScore    == <<row, df_items, books>>
vars == <<call, pc, varsDivide, varsSampler, varsReformat, varsPriority, varsProba, varsSimilar,
          varsScore>>

Idle == "idle"
IdleDivide   == n = Idle /\ parts = Idle
IdleSampler  == /\ df = Idle /\ n_users = Idle /\ seed = Idle /\ thresholds = Idle
                /\ ignorant_proportion = Idle /\ rng = Idle /\ sampled = Idle
                /\ df_reordered = Idle /\ resampled = Idle
IdleReformat == d = Idle /\ genres = Idle
IdlePriority == vectors = Idle /\ priority = Idle /\ items_df = Idle
IdleProba    == /\ users_is_read = Idle /\ users_thresholds = Idle /\ steps = Idle
                /\ read_proba = Idle
IdleSimilar  == /\ df_reference = Idle /\ df_compare = Idle /\ top_n = Idle
                /\ similarities = Idle
IdleScore    == row = Idle /\ df_items = Idle /\ books = Idle

\* What a call that raises leaves behind: no value at all.
Raised(what) == [status |-> "error", error |-> what]

-----------------------------------------------------------------------------
(* Generic helpers *)

Range(s) == {s[i] : i \in DOMAIN s}

SeqsUpTo(S, k) == UNION {[1..m -> S] : m \in 0..k}

Permutations1(m) == {p \in [1..m -> 1..m] : \A i, j \in 1..m : p[i] = p[j] => i = j}

Min(a, b) == IF a <= b THEN a ELSE b

\* Python's round() on a ratio a/b (b > 0): ties go to the even neighbour.
RoundHalfEven(a, b) ==
    LET q == a \div b
        r == a % b
    IN  IF 2 * r < b THEN q
        ELSE IF 2 * r > b THEN q + 1
        ELSE IF q % 2 = 0 THEN q ELSE q + 1

-----------------------------------------------------------------------------
(* utils.divide_into_three *)

MaxN == 60

divide_into_three_swapped(k) ==
    LET part == k \div 3
        remainder == k % 3
    IN  IF remainder = 0 THEN <<part, part, part>>
        ELSE IF remainder = 1 THEN <<part + 1, part, part>>
        ELSE <<part + 1, part, part + 1>>

divide_into_three(k) ==
    LET part == k \div 3
        remainder == k % 3
    IN  IF remainder = 0 THEN <<part, part, part>>
        ELSE IF remainder = 1 THEN <<part + 1, part, part>>
        ELSE <<part + 1, part + 1, part>>

InitDivide ==
    /\ call = "divide_into_three"
    /\ pc = "start"
    /\ n \in 0..MaxN
    /\ parts = Idle
    /\ IdleSampler /\ IdleReformat /\ IdlePriority /\ IdleProba /\ IdleSimilar /\ IdleScore

Divide ==
    /\ call = "divide_into_three"
    /\ pc = "start"
    /\ parts' = divide_into_three(n)
    /\ pc' = "done"
    /\ UNCHANGED <<call, n, varsSampler, varsReformat, varsPriority, varsProba, varsSimilar, varsScore>>

NextDivide == Divide

SpecDivide == InitDivide /\ [][NextDivide]_vars

\* C2: divide_into_three(N) returns three non-negative integers summing to N,
\* low >= mid >= high, low - high <= 1; remainder 1 goes to low only,
\* remainder 2 to low and mid.
DivideIntoThreeEven ==
    pc = "done" =>
        /\ parts \in Nat \X Nat \X Nat
        /\ parts[1] + parts[2] + parts[3] = n
        /\ parts[1] >= parts[2] /\ parts[2] >= parts[3]
        /\ parts[1] - parts[3] <= 1
        /\ (n % 3 = 1 => parts[1] = parts[3] + 1 /\ parts[2] = parts[3])
        /\ (n % 3 = 2 => parts[1] = parts[3] + 1 /\ parts[2] = parts[3] + 1)

DivideRemainderTwoSeen ==
    pc = "done" /\ n % 3 = 2 /\ n > 3 /\ parts[2] = parts[3] + 1

-----------------------------------------------------------------------------
(* data_preparation.process_df_users_raw *)

Users == {1, 2, 3}
MaxReads == 4
MaxSample == 3

\* seed: int | None, as a sequence of at most one integer.  Without a seed
\* every draw is independent.
None == <<>>
Seeds == {None, <<42>>}

\* thresholds, ascending (get_model_df's default is [5, 20, 50]).
ThresholdChoices == {<<1, 2, 3>>, <<2, 3, 4>>}

\* ignorant_proportion as a ratio <<numerator, denominator>>: 0.0 and 0.5
Proportions == {<<0, 1>>, <<1, 2>>}

\* An interaction row.  book_id is never null (get_model_df keeps the rows whose
\* book_id is a known book), so counting book_id counts rows.
InteractionRow(u, r) == [user_id |-> u, is_read |-> r]

\* The tables drawn: users 1..k in turn (user ids are opaque, so the order of
\* first appearance is taken as 1, 2, ..), each with 1..MaxReads read rows, then
\* possibly one more row that is not a read, of any user.
ReadBlocks(counts) ==
    LET RECURSIVE B(_)
        B(k) == IF k = 0 THEN <<>>
                ELSE B(k - 1) \o [i \in 1..counts[k] |-> InteractionRow(k, 1)]
    IN  B(Len(counts))

Tables ==
    LET blocks == {ReadBlocks(c) : c \in SeqsUpTo(1..MaxReads, Cardinality(Users))}
    IN  blocks \cup {Append(t, InteractionRow(u, 0)) : t \in blocks, u \in Users}

Filter(s, keep) == 
    LET RECURSIVE F(_)
        F(k) == IF k = 0 THEN <<>>
                ELSE IF s[k] \in keep THEN Append(F(k - 1), s[k]) ELSE F(k - 1)
    IN  F(Len(s))

UserCol(t) == [i \in DOMAIN t |-> t[i].user_id]

\* df[df["is_read"] == 1]
read_only_df(t) == Filter(t, {r \in Range(t) : r.is_read = 1})

\* read_only_df.groupby("user_id")["book_id"].count(): a row per user with a read row
book_count(t) ==
    LET ro == read_only_df(t)
    IN  [u \in Range(UserCol(ro)) |-> Cardinality({i \in DOMAIN ro : ro[i].user_id = u})]

\* filtered_df without the cut at the top threshold
filtered_df_uncut(t, thr) ==
    LET tmp_df == book_count(t)
        kept == Filter(t, {r \in Range(t) : r.user_id \in DOMAIN tmp_df})
    IN  [i \in DOMAIN kept |->
            [user_id |-> kept[i].user_id, is_read |-> kept[i].is_read,
             book_count |-> tmp_df[kept[i].user_id]]]

\* tmp_df[tmp_df["book_count"] <= thresholds[2]]["user_id"], then
\* df[df["user_id"].isin(user_ids)].merge(tmp_df, on="user_id", how="left")
filtered_df(t, thr) ==
    LET tmp_df == book_count(t)
        user_ids == {u \in DOMAIN tmp_df : tmp_df[u] <= thr[3]}
        kept == Filter(t, {r \in Range(t) : r.user_id \in user_ids})
    IN  [i \in DOMAIN kept |->
            [user_id |-> kept[i].user_id, is_read |-> kept[i].is_read,
             book_count |-> tmp_df[kept[i].user_id]]]

\* drop_duplicates(keep="last"): the last occurrence of each value, in order
drop_duplicates_keep_last(s) ==
    LET RECURSIVE D(_)
        D(k) == IF k > Len(s) THEN <<>>
                ELSE LET later == D(k + 1)
                     IN  IF s[k] \in Range(later) THEN later ELSE <<s[k]>> \o later
    IN  D(1)

\* Series.drop_duplicates(): the first occurrence of each value, in order
drop_duplicates(s) ==
    LET RECURSIVE D(_)
        D(k) == IF k = 0 THEN <<>>
                ELSE LET seen == D(k - 1)
                     IN  IF s[k] \in Range(seen) THEN seen ELSE Append(seen, s[k])
    IN  D(Len(s))

\* Series.sample(n=k, random_state=seed): the entries at the first k positions of
\* the permutation RandomState draws for the series' length; more than the series
\* holds is a ValueError.
sample(s, k, perm) ==
    IF k < 0 \/ k > Len(s) THEN Raised("ValueError")
    ELSE [status |-> "ok", value |-> [i \in 1..k |-> s[perm[i]]]]

low_tier(f, thr)  == Filter(f, {r \in Range(f) : r.book_count <= thr[1]})
mid_tier(f, thr)  == Filter(f, {r \in Range(f) : r.book_count <= thr[2] /\ r.book_count > thr[1]})
high_tier(f, thr) == Filter(f, {r \in Range(f) : r.book_count > thr[2]})

\* One sub_df of the "Add ignorance" loop: sub_df['ignorant'] = ... .map(naiveness_map)
add_ignorance(sub_df, p, perm) ==
    LET unique_users == drop_duplicates(UserCol(sub_df))
        shuffled_users == sample(unique_users, Len(unique_users), perm).value
        half_point == RoundHalfEven(Len(shuffled_users) * p[1], p[2])
        naiveness_map == [u \in Range(shuffled_users) |->
                             \E i \in 1..Min(half_point, Len(shuffled_users)) : shuffled_users[i] = u]
    IN  [i \in DOMAIN sub_df |->
            [user_id |-> sub_df[i].user_id, is_read |-> sub_df[i].is_read,
             book_count |-> sub_df[i].book_count,
             ignorant |-> IF p[1] # 0 THEN naiveness_map[sub_df[i].user_id] ELSE FALSE]]

\* The whole call.  draws = the permutations of the six draws, in call order:
\* the low, mid and high sample, then the three shuffles.
process_df_users_raw(t, k, thr, p, draws) ==
    LET f == filtered_df(t, thr)
        divisions == divide_into_three(k)
        low_user_ids  == sample(drop_duplicates(UserCol(low_tier(f, thr))), divisions[1], draws[1])
        mid_user_ids  == sample(drop_duplicates(UserCol(mid_tier(f, thr))), divisions[2], draws[2])
        high_user_ids == sample(drop_duplicates(UserCol(high_tier(f, thr))), divisions[3], draws[3])
    IN  IF low_user_ids.status = "error" THEN low_user_ids
        ELSE IF mid_user_ids.status = "error" THEN mid_user_ids
        ELSE IF high_user_ids.status = "error" THEN high_user_ids
        ELSE
            LET low_df  == Filter(f, {r \in Range(f) : r.user_id \in Range(low_user_ids.value)})
                mid_df  == Filter(f, {r \in Range(f) : r.user_id \in Range(mid_user_ids.value)})
                high_df == Filter(f, {r \in Range(f) : r.user_id \in Range(high_user_ids.value)})
            IN  [status |-> "ok",
                 low  |-> add_ignorance(low_df, p, draws[4]),
                 mid  |-> add_ignorance(mid_df, p, draws[5]),
                 high |-> add_ignorance(high_df, p, draws[6])]

\* pd.concat([low_df, mid_df, high_df])
Returned(res) == res.low \o res.mid \o res.high

\* The lengths of the six draws of a call (0 for a draw the call does not reach).
DrawLengths(t, k, thr, p) ==
    LET f == filtered_df(t, thr)
        divisions == divide_into_three(k)
        l1 == Len(drop_duplicates(UserCol(low_tier(f, thr))))
        l2 == Len(drop_duplicates(UserCol(mid_tier(f, thr))))
        l3 == Len(drop_duplicates(UserCol(high_tier(f, thr))))
        ok1 == divisions[1] <= l1
        ok2 == ok1 /\ divisions[2] <= l2
        ok3 == ok2 /\ divisions[3] <= l3
        shuffle == ok3 /\ p[1] # 0
    IN  <<l1, IF ok1 THEN l2 ELSE 0, IF ok2 THEN l3 ELSE 0,
          IF shuffle THEN divisions[1] ELSE 0, IF shuffle THEN divisions[2] ELSE 0, IF shuffle THEN divisions[3] ELSE 0>>

\* RandomState(seed) yields one permutation per length; without a seed every
\* draw is on its own.
Draws(lens, sd) ==
    {dr \in Permutations1(lens[1]) \X Permutations1(lens[2]) \X Permutations1(lens[3])
            \X Permutations1(lens[4]) \X Permutations1(lens[5]) \X Permutations1(lens[6]) :
        sd # None => \A c, e \in 1..6 : lens[c] = lens[e] => dr[c] = dr[e]}

\* The draws of a later call with the same seed: the same permutation per length.
Redraws(lens, sd, oldLens, old) ==
    {dr \in Draws(lens, sd) :
        sd # None => \A c, e \in 1..6 : lens[c] = oldLens[e] => dr[c] = old[e]}

Swap(t, i, j) == [t EXCEPT ![i] = t[j], ![j] = t[i]]

InitSampler ==
    /\ call = "process_df_users_raw"
    /\ pc = "start"
    /\ df \in Tables
    /\ n_users \in 0..MaxSample
    /\ seed \in Seeds
    /\ thresholds \in ThresholdChoices
    /\ ignorant_proportion \in Proportions
    /\ rng = <<>>
    /\ sampled = Idle
    /\ df_reordered = Idle
    /\ resampled = Idle
    /\ IdleDivide /\ IdleReformat /\ IdlePriority /\ IdleProba /\ IdleSimilar /\ IdleScore

Process ==
    /\ call = "process_df_users_raw"
    /\ pc = "start"
    /\ \E lens \in {DrawLengths(df, n_users, thresholds, ignorant_proportion)} :
       \E dr \in Draws(lens, seed) :
        /\ rng' = dr
        /\ sampled' = process_df_users_raw(df, n_users, thresholds, ignorant_proportion, dr)
    /\ pc' = "done"
    /\ UNCHANGED <<call, df, n_users, seed, thresholds, ignorant_proportion, df_reordered, resampled,
                   varsDivide, varsReformat, varsPriority, varsProba, varsSimilar, varsScore>>

\* The same call again with the same seed (there is one), the rows in another
\* order: two neighbours swapped.
Reprocess ==
    /\ call = "process_df_users_raw"
    /\ pc = "done"
    /\ seed # None
    /\ \E i, j \in DOMAIN df :
        /\ j = i + 1
        /\ \E t \in {Swap(df, i, j)} :
           \E lens \in {DrawLengths(t, n_users, thresholds, ignorant_proportion)} :
           \E oldLens \in {DrawLengths(df, n_users, thresholds, ignorant_proportion)} :
           \E dr \in Redraws(lens, seed, oldLens, rng) :
            /\ df_reordered' = t
            /\ resampled' = process_df_users_raw(t, n_users, thresholds, ignorant_proportion, dr)
    /\ pc' = "rerun"
    /\ UNCHANGED <<call, df, n_users, seed, thresholds, ignorant_proportion, rng, sampled,
                   varsDivide, varsReformat, varsPriority, varsProba, varsSimilar, varsScore>>

NextSampler == Process \/ Reprocess

SpecSampler == InitSampler /\ [][NextSampler]_vars

(* Claims about process_df_users_raw, stated on the input table itself *)

ReadCount(t, u) == Cardinality({i \in DOMAIN t : t[i].user_id = u /\ t[i].is_read = 1})

LowPopulation(t, thr)  == {u \in Users : ReadCount(t, u) >= 1 /\ ReadCount(t, u) <= thr[1]}
MidPopulation(t, thr)  == {u \in Users : ReadCount(t, u) > thr[1] /\ ReadCount(t, u) <= thr[2]}
HighPopulation(t, thr) == {u \in Users : ReadCount(t, u) > thr[2] /\ ReadCount(t, u) <= thr[3]}

UsersOf(rows) == {rows[i].user_id : i \in DOMAIN rows}

Infeasible(t, k, thr) ==
    \/ divide_into_three(k)[1] > Cardinality(LowPopulation(t, thr))
    \/ divide_into_three(k)[2] > Cardinality(MidPopulation(t, thr))
    \/ divide_into_three(k)[3] > Cardinality(HighPopulation(t, thr))

\* C1: the call either raises (some tier's sub-count exceeds the tier's eligible
\* population) or returns the rows of exactly N distinct users, all with a
\* read-only book count <= t2, the low sample within book_count <= t0, the mid
\* sample within t0 < book_count <= t1, the high sample within
\* t1 < book_count <= t2, no user in two tiers; never an under-filled sample.
StratifiedSampleExact ==
    pc = "done" =>
        /\ sampled.status = "error" => Infeasible(df, n_users, thresholds)
        /\ sampled.status = "ok" =>
            /\ Cardinality(UsersOf(Returned(sampled))) = n_users
            /\ \A u \in UsersOf(Returned(sampled)) : ReadCount(df, u) <= thresholds[3]
            /\ UsersOf(sampled.low) \subseteq LowPopulation(df, thresholds)
            /\ UsersOf(sampled.mid) \subseteq MidPopulation(df, thresholds)
            /\ UsersOf(sampled.high) \subseteq HighPopulation(df, thresholds)
            /\ UsersOf(sampled.low) \cap UsersOf(sampled.mid) = {}
            /\ UsersOf(sampled.low) \cap UsersOf(sampled.high) = {}
            /\ UsersOf(sampled.mid) \cap UsersOf(sampled.high) = {}
            /\ \A i \in DOMAIN df :
                   df[i].user_id \in UsersOf(Returned(sampled)) =>
                       \E j \in DOMAIN Returned(sampled) :
                           /\ Returned(sampled)[j].user_id = df[i].user_id
                           /\ Returned(sampled)[j].is_read = df[i].is_read

\* A full three-tier sample, a row that is not a read in the table.
ThreeTierSampleSeen ==
    /\ pc = "done"
    /\ sampled.status = "ok"
    /\ n_users = 3
    /\ UsersOf(sampled.low) # {} /\ UsersOf(sampled.mid) # {} /\ UsersOf(sampled.high) # {}
    /\ \E i \in DOMAIN df : df[i].is_read = 0

\* What two runs are compared on: the sampled users of each tier and who is ignorant.
Outcome(res) ==
    IF res.status = "error" THEN <<"error">>
    ELSE <<"ok", UsersOf(res.low), UsersOf(res.mid), UsersOf(res.high),
           {r.user_id : r \in {x \in Range(Returned(res)) : x.ignorant}}>>

FirstRow(t, u) == CHOOSE i \in DOMAIN t : t[i].user_id = u /\ \A j \in 1..(i - 1) : t[j].user_id # u

\* The order in which the eligible users of one tier first appear in the table.
Precedes(t, pop) == {<<u, v>> \in pop \X pop : FirstRow(t, u) < FirstRow(t, v)}

SameTierOrder(t1, t2, thr) ==
    /\ Precedes(t1, LowPopulation(t1, thr)) = Precedes(t2, LowPopulation(t2, thr))
    /\ Precedes(t1, MidPopulation(t1, thr)) = Precedes(t2, MidPopulation(t2, thr))
    /\ Precedes(t1, HighPopulation(t1, thr)) = Precedes(t2, HighPopulation(t2, thr))

-----------------------------------------------------------------------------
(* data_preparation.reformat_dict *)

MaxEntries == 3

\* get_categories(): the closed, ordered category list (sixteen labels in the
\* program; the first few here).  A label is the sequence of its characters.
get_categories == << <<"f">>, <<"p">>, <<"y", "_", "a">>, <<"c">> >>

\* Raw genre labels of the items feed, some compound, and their counts.
RawLabels == { <<"f">>, <<"f", ",", " ", "p">>, <<"y", "-", "a">>, <<"y", " ", "a">> }
RawCounts == {-1, 1, 3}

\* The dicts drawn: up to MaxEntries entries <<label, count>> in insertion order,
\* no label twice.
GenreDicts ==
    {x \in SeqsUpTo(RawLabels \X RawCounts, MaxEntries) :
        \A i, j \in DOMAIN x : x[i][1] = x[j][1] => i = j}

\* str.split(",")
split(s) ==
    LET RECURSIVE S(_)
        S(k) == IF k = 0 THEN << <<>> >>
                ELSE LET before == S(k - 1)
                     IN  IF s[k] = "," THEN Append(before, <<>>)
                         ELSE [before EXCEPT ![Len(before)] = Append(@, s[k])]
    IN  S(Len(s))

\* str.strip()
strip(s) ==
    LET inside == {i \in DOMAIN s : s[i] # " "}
    IN  IF inside = {} THEN <<>>
        ELSE LET first == CHOOSE i \in inside : \A j \in inside : i <= j
                 last  == CHOOSE i \in inside : \A j \in inside : i >= j
             IN  SubSeq(s, first, last)

\* str.replace(old, new), one character for another
replace(s, old, new) == [i \in DOMAIN s |-> IF s[i] = old THEN new ELSE s[i]]

\* g.strip().replace(" ", "_").replace("-", "_")
Canonical(g) == replace(replace(strip(g), " ", "_"), "-", "_")

\* dict.get(k, default)
get(m, k, default) == IF k \in DOMAIN m THEN m[k] ELSE default

\* m[k] = v
put(m, k, v) == [x \in DOMAIN m \cup {k} |-> IF x = k THEN v ELSE m[x]]

\* The inner loop: for g in genre.split(","): genres[g] = ... if value > 0 else 0
add_genre(m, genre, value) ==
    LET gs == split(genre)
        RECURSIVE G(_)
        G(k) == IF k = 0 THEN m
                ELSE LET sofar == G(k - 1)
                         g == Canonical(gs[k])
                     IN  put(sofar, g, IF value > 0 THEN get(sofar, g, 0) + value ELSE 0)
    IN  G(Len(gs))

reformat_dict(dd) ==
    LET RECURSIVE E(_)
        E(k) == IF k = 0 THEN <<>> ELSE add_genre(E(k - 1), dd[k][1], dd[k][2])
        looped == E(Len(dd))
    IN  [g \in DOMAIN looped \cup Range(get_categories) |-> get(looped, g, 0)]

InitReformat ==
    /\ call = "reformat_dict"
    /\ pc = "start"
    /\ d \in GenreDicts
    /\ genres = Idle
    /\ IdleDivide /\ IdleSampler /\ IdlePriority /\ IdleProba /\ IdleSimilar /\ IdleScore

Reformat ==
    /\ call = "reformat_dict"
    /\ pc = "start"
    /\ genres' = reformat_dict(d)
    /\ pc' = "done"
    /\ UNCHANGED <<call, d, varsDivide, varsSampler, varsPriority, varsProba, varsSimilar, varsScore>>

NextReformat == Reformat

SpecReformat == InitReformat /\ [][NextReformat]_vars

\* C3: a negative count for raw label L leaves every canonical bucket derived
\* from L at 0 in the output, whatever other labels add to the bucket and in
\* whatever order the entries come.
NegativeCountZeroesBucket ==
    pc = "done" =>
        \A i \in DOMAIN d :
            d[i][2] < 0 =>
                \A k \in DOMAIN split(d[i][1]) : genres[Canonical(split(d[i][1])[k])] = 0

-----------------------------------------------------------------------------
(* data_preparation.get_items_df and calculate_priority *)

MaxCount == 2

Axes == DOMAIN get_categories

\* An item's "vector": one non-negative value per category axis.
Vectors == [Axes -> 0..MaxCount]
ZeroVector == [a \in Axes |-> 0]

\* The "vector" column of the item tables drawn: one item, or one item and an
\* item whose vector is all zero.
VectorColumns == {<<v>> : v \in Vectors} \cup {<<v, ZeroVector>> : v \in Vectors}

\* priority: str | float | None, and what a caller may pass besides: None, the
\* floats 0.0, 0.5 and 1.0, a category name, another string, the integer 1.
NoStrategy == [kind |-> "None"]
FloatStrategy(num, den) == [kind |-> "float", num |-> num, den |-> den]
StrStrategy(name) == [kind |-> "str", value |-> name]
IntStrategy(i) == [kind |-> "int", int |-> i]

Strategies ==
    {NoStrategy, FloatStrategy(0, 1), FloatStrategy(1, 2), FloatStrategy(1, 1), IntStrategy(1),
     StrStrategy(<<"x">>)} \cup {StrStrategy(c) : c \in Range(get_categories)}

\* bool(priority)
Truthy(p) ==
    CASE p.kind = "None"  -> FALSE
      [] p.kind = "float" -> p.num # 0
      [] p.kind = "int"   -> p.int # 0
      [] p.kind = "str"   -> p.value # <<>>

\* priority in categories
InCategories(p) == p.kind = "str" /\ p.value \in Range(get_categories)

\* categories.index(priority)
index(name) == CHOOSE a \in Axes :
                   get_categories[a] = name /\ \A b \in 1..(a - 1) : get_categories[b] # name

\* np.max(row["vector"])
np_max(v) == CHOOSE m \in Range(v) : \A a \in DOMAIN v : v[a] <= m

\* cat_index == np.argmax(row["vector"]) in place of the membership in max_indices
category_priority_argmax(v, cat_index) ==
    LET max_value == np_max(v)
        argmax == CHOOSE a \in DOMAIN v : v[a] = max_value /\ \A b \in 1..(a - 1) : v[b] # max_value
    IN  IF cat_index = argmax /\ ~(\A a \in DOMAIN v : v[a] = 0) THEN 1 ELSE 0

\* The category branch: float(cat_index in max_indices and not np.all(vector == 0))
category_priority(v, cat_index) ==
    LET max_value == np_max(v)
        max_indices == {a \in DOMAIN v : v[a] = max_value}
    IN  IF cat_index \in max_indices /\ ~(\A a \in DOMAIN v : v[a] = 0) THEN 1 ELSE 0

\* What one call may return: <<x>> for the number x, None when the function
\* falls off its end.  np.random.random() is in [0, 1).
calculate_priority(v, p) ==
    IF ~Truthy(p) THEN {<<0>>}
    ELSE IF p.kind = "float"
         THEN (IF p.num < p.den THEN {<<0>>} ELSE {}) \cup (IF p.num > 0 THEN {<<1>>} ELSE {})
    ELSE IF InCategories(p) THEN {<<category_priority(v, index(p.value))>>}
    ELSE {None}

\* items_df["priority"] = items_df.apply(calculate_priority, args=(priority,), axis=1)
get_items_df(vs, p) ==
    {[status |-> "ok", vector |-> vs, priority |-> cells] :
        cells \in {c \in [DOMAIN vs -> {None, <<0>>, <<1>>}] :
                      \A i \in DOMAIN vs : c[i] \in calculate_priority(vs[i], p)}}

InitPriority ==
    /\ call = "get_items_df"
    /\ pc = "start"
    /\ vectors \in VectorColumns
    /\ priority \in Strategies
    /\ items_df = Idle
    /\ IdleDivide /\ IdleSampler /\ IdleReformat /\ IdleProba /\ IdleSimilar /\ IdleScore

GetItemsDf ==
    /\ call = "get_items_df"
    /\ pc = "start"
    /\ items_df' \in get_items_df(vectors, priority)
    /\ pc' = "done"
    /\ UNCHANGED <<call, vectors, priority, varsDivide, varsSampler, varsReformat, varsProba,
                   varsSimilar, varsScore>>

NextPriority == GetItemsDf

SpecPriority == InitPriority /\ [][NextPriority]_vars

\* C5: a truthy strategy that is neither a float nor a category name makes the
\* call signal an invalid-configuration error; no item table with a priority
\* column comes back, and no priority is left undefined.
InvalidStrategyRejected ==
    (pc = "done" /\ Truthy(priority) /\ priority.kind # "float" /\ ~InCategories(priority)) =>
        items_df.status = "error"

\* C6: with a category name c as strategy, an item's priority is 1 exactly when
\* its vector is not all zero and the value on c's axis equals the vector's
\* maximum (ties included), and 0 in every other case.
CategoryPriorityIsTiedMax ==
    (pc = "done" /\ InCategories(priority)) =>
        \A i \in DOMAIN vectors :
            LET v == vectors[i]
                c == CHOOSE a \in Axes : get_categories[a] = priority.value
                holdsMax == (\E a \in Axes : v[a] # 0) /\ (\A a \in Axes : v[a] <= v[c])
            IN  items_df.priority[i] = IF holdsMax THEN <<1>> ELSE <<0>>

\* A tie for the maximum on the strategy's axis, which is not the first axis of
\* the tie, next to an all-zero item.
TiedMaxPrioritySeen ==
    /\ pc = "done"
    /\ InCategories(priority)
    /\ Len(vectors) = 2
    /\ \E a, b \in Axes :
        /\ a < b
        /\ get_categories[b] = priority.value
        /\ vectors[1][a] = vectors[1][b]
        /\ vectors[1][b] > 0
    /\ items_df.priority = << <<1>>, <<0>> >>

-----------------------------------------------------------------------------
(* data_preparation.get_users_df: the read_proba column *)

MaxSteps == 12

\* round(x, 4): probabilities are kept as integers, in units of 1/10000.
Scale == 10000

\* thresholds, positive and ascending; [5, 20, 50] is get_model_df's default.
UsersThresholdChoices == {<<5, 20, 50>>, <<2, 4, 6>>}

\* The users' "is_read" sums drawn, around the thresholds; up to two users.
IsReadSums == {0, 2, 3, 5, 6, 20, 21, 50}
IsReadColumns == SeqsUpTo(IsReadSums, 2)

\* round(average / steps, 4), the average being sum2 / 2
rate(sum2, stepCount) == RoundHalfEven(sum2 * Scale, 2 * stepCount)

low_readers_proba(thr, stepCount)  == rate(thr[1], stepCount)
mid_readers_proba(thr, stepCount)  == rate((thr[2] - thr[1]) + 2 * thr[1], stepCount)
high_readers_proba(thr, stepCount) == rate((thr[3] - thr[2]) + 2 * thr[2], stepCount)

\* users_df["read_proba"] = np.where(is_read <= t0, low, np.where(is_read <= t1, mid, high))
read_proba_column(col, thr, stepCount) ==
    [i \in DOMAIN col |->
        IF col[i] <= thr[1] THEN low_readers_proba(thr, stepCount)
        ELSE IF col[i] <= thr[2] THEN mid_readers_proba(thr, stepCount)
        ELSE high_readers_proba(thr, stepCount)]

InitProba ==
    /\ call = "get_users_df"
    /\ pc = "start"
    /\ users_is_read \in IsReadColumns
    /\ users_thresholds \in UsersThresholdChoices
    /\ steps \in 1..MaxSteps
    /\ read_proba = Idle
    /\ IdleDivide /\ IdleSampler /\ IdleReformat /\ IdlePriority /\ IdleSimilar /\ IdleScore

GetUsersDf ==
    /\ call = "get_users_df"
    /\ pc = "start"
    /\ read_proba' = read_proba_column(users_is_read, users_thresholds, steps)
    /\ pc' = "done"
    /\ UNCHANGED <<call, users_is_read, users_thresholds, steps, varsDivide, varsSampler, varsReformat,
                   varsPriority, varsSimilar, varsScore>>

NextProba == GetUsersDf

SpecProba == InitProba /\ [][NextProba]_vars

\* C10: every user's read_proba lies in (0, 1] and is the low rate
\* round((t0/2)/steps, 4) for an is_read total <= t0, the mid rate
\* round(((t1-t0)/2 + t0)/steps, 4) for t0 < total <= t1, the high rate
\* round(((t2-t1)/2 + t1)/steps, 4) otherwise.
ReadProbaIsProbability ==
    pc = "done" =>
        \A i \in DOMAIN users_is_read :
            LET t == users_thresholds
                total == users_is_read[i]
            IN  /\ read_proba[i] > 0
                /\ read_proba[i] <= Scale
                /\ total <= t[1] => read_proba[i] = RoundHalfEven(t[1] * Scale, 2 * steps)
                /\ (total > t[1] /\ total <= t[2]) =>
                       read_proba[i] = RoundHalfEven((t[1] + t[2]) * Scale, 2 * steps)
                /\ total > t[2] =>
                       read_proba[i] = RoundHalfEven((t[2] + t[3]) * Scale, 2 * steps)

-----------------------------------------------------------------------------
(* Scores *)

\* The genre vectors drawn for users and items in the similarity computations
\* (an item's vector is a mean; its direction is all that a cosine reads).
GenreVectors ==
    {ZeroVector,
     [a \in Axes |-> IF a = 1 THEN 1 ELSE 0],
     [a \in Axes |-> IF a = 2 THEN 1 ELSE 0],
     [a \in Axes |-> IF a \in {1, 2} THEN 1 ELSE 0],
     [a \in Axes |-> IF a = 1 THEN 2 ELSE IF a = 3 THEN 1 ELSE 0]}

SumOver(f) ==
    LET RECURSIVE S(_)
        S(k) == IF k = 0 THEN 0 ELSE S(k - 1) + f[k]
    IN  S(Len(f))

\* np.dot of two vectors, and the square of np.linalg.norm
dot(u, v) == SumOver([a \in DOMAIN u |-> u[a] * v[a]])
norm2(u) == dot(u, u)

\* A float score.  A number is kept exactly, as numer / sqrt(denom2) with
\* numer >= 0 and denom2 > 0; NaN is what 0.0 / 0.0 gives.
NaN == [nan |-> TRUE, numer |-> 0, denom2 |-> 0]
Number(x) == [nan |-> FALSE, numer |-> x, denom2 |-> 1]
Ratio(x, y2) == [nan |-> FALSE, numer |-> x, denom2 |-> y2]

\* Python's a < b and a == b on floats: both false whenever either is NaN
lt(a, b) == ~a.nan /\ ~b.nan /\ a.numer * a.numer * b.denom2 < b.numer * b.numer * a.denom2
eq(a, b) == ~a.nan /\ ~b.nan /\ a.numer * a.numer * b.denom2 = b.numer * b.numer * a.denom2

-----------------------------------------------------------------------------
(* data_preparation.matrix_cosine_similarity *)

MaxCompare == 3
MaxTopN == 3

\* similarities[i, j]: the rows divided by their norms, then np.dot.  A zero
\* norm divides 0.0 by 0.0 in every component.
similarity(u, v) ==
    IF norm2(u) = 0 \/ norm2(v) = 0 THEN NaN ELSE Ratio(dot(u, v), norm2(u) * norm2(v))

Reverse(s) == [i \in DOMAIN s |-> s[Len(s) + 1 - i]]

\* The comparison list.sort makes of two items by their key: key(x) < key(y)
ISLT(x, y) == lt(x[2], y[2])

\* list.sort's count_run: the length of the run the list starts with, and
\* whether it is a (strictly) descending one
count_run(s) ==
    IF Len(s) < 2 THEN <<Len(s), FALSE>>
    ELSE LET descending == ISLT(s[2], s[1])
             goes(i) == IF descending THEN ISLT(s[i], s[i - 1]) ELSE ~ISLT(s[i], s[i - 1])
             run == CHOOSE k \in 2..Len(s) :
                        /\ \A i \in 3..k : goes(i)
                        /\ k < Len(s) => ~goes(k + 1)
         IN  <<run, descending>>

\* list.sort's binarysort: s[1..start-1] is sorted; insert the rest one by one,
\* each after the elements it is not less than
binarysort(s, start) ==
    LET RECURSIVE Place(_, _, _, _)
        Place(a, pivot, l, r) ==
            IF l >= r THEN l
            ELSE LET p == l + ((r - l) \div 2)
                 IN  IF ISLT(pivot, a[p + 1]) THEN Place(a, pivot, l, p)
                     ELSE Place(a, pivot, p + 1, r)
        RECURSIVE B(_)
        B(k) == IF k < start THEN s
                ELSE LET a == B(k - 1)
                         pivot == a[k]
                         l == Place(a, pivot, 0, k - 1)
                     IN  [i \in DOMAIN a |->
                             IF i <= l THEN a[i]
                             ELSE IF i = l + 1 THEN pivot
                             ELSE IF i <= k THEN a[i - 1]
                             ELSE a[i]]
    IN  B(Len(s))

\* list.sort on a list shorter than a minimal run: the first run (reversed when
\* descending), then binarysort
list_sort(s) ==
    LET cr == count_run(s)
        run == IF cr[2]
               THEN [i \in DOMAIN s |-> IF i <= cr[1] THEN s[cr[1] + 1 - i] ELSE s[i]]
               ELSE s
    IN  IF Len(s) < 2 THEN s ELSE binarysort(run, cr[1] + 1)

\* sorted(items, key=lambda item: item[1], reverse=True): the list is reversed,
\* sorted ascending and reversed again, which keeps equal keys in their order
sorted_reverse(s) == Reverse(list_sort(Reverse(s)))

\* One row of df_reference["similarities"]: the dict of the first k sorted
\* (index, score) pairs, in that order
top_similarities(u, compare, k) ==
    LET items == [j \in DOMAIN compare |-> <<j, similarity(u, compare[j])>>]
    IN  SubSeq(sorted_reverse(items), 1, Min(k, Len(items)))

matrix_cosine_similarity(reference, compare, k) ==
    [i \in DOMAIN reference |-> top_similarities(reference[i], compare, k)]

InitSimilar ==
    /\ call = "matrix_cosine_similarity"
    /\ pc = "start"
    /\ df_reference \in {<<u>> : u \in GenreVectors} \cup {<<u, ZeroVector>> : u \in GenreVectors}
    /\ df_compare \in SeqsUpTo(GenreVectors, MaxCompare) \ {<<>>}
    /\ top_n \in 1..MaxTopN
    /\ similarities = Idle
    /\ IdleDivide /\ IdleSampler /\ IdleReformat /\ IdlePriority /\ IdleProba /\ IdleScore

MatrixCosineSimilarity ==
    /\ call = "matrix_cosine_similarity"
    /\ pc = "start"
    /\ similarities' = matrix_cosine_similarity(df_reference, df_compare, top_n)
    /\ pc' = "done"
    /\ UNCHANGED <<call, df_reference, df_compare, top_n, varsDivide, varsSampler, varsReformat,
                   varsPriority, varsProba, varsScore>>

NextSimilar == MatrixCosineSimilarity

SpecSimilar == InitSimilar /\ [][NextSimilar]_vars

\* A score is a defined number in [-1, 1]
InUnitRange(x) == ~x.nan /\ x.numer * x.numer <= x.denom2

\* C8: whatever vectors are given, all-zero ones included, every score stored in
\* the similarities mappings is a defined number in [-1, 1]; no NaN reaches the
\* output or the ranking.
SimilaritiesAreNumbers ==
    pc = "done" =>
        \A i \in DOMAIN similarities :
            \A k \in DOMAIN similarities[i] : InUnitRange(similarities[i][k][2])

\* The score of comparison item j for reference row i
ScoreOf(i, j) == similarity(df_reference[i], df_compare[j])

\* C9: for every reference row the mapping has min(N, K) entries, in descending
\* order of score, every omitted item scoring no more than every included one,
\* and equal scores in the comparison set's order.
TopNSortedDescending ==
    pc = "done" =>
        \A i \in DOMAIN similarities :
            LET m == similarities[i]
                included == {m[k][1] : k \in DOMAIN m}
                le(a, b) == lt(a, b) \/ eq(a, b)
            IN  /\ Len(m) = Min(top_n, Len(df_compare))
                /\ \A k \in DOMAIN m : m[k][1] \in DOMAIN df_compare
                                       /\ m[k][2] = ScoreOf(i, m[k][1])
                /\ \A k, l \in DOMAIN m : k < l => m[k][1] # m[l][1] /\ le(m[l][2], m[k][2])
                /\ \A j \in DOMAIN df_compare \ included :
                       \A k \in DOMAIN m : le(ScoreOf(i, j), m[k][2])
                /\ \A k, l \in DOMAIN m : (k < l /\ eq(m[k][2], m[l][2])) => m[k][1] < m[l][1]

\* The same two properties where no vector is all zero
NoZeroVector ==
    /\ \A i \in DOMAIN df_reference : norm2(df_reference[i]) > 0
    /\ \A j \in DOMAIN df_compare : norm2(df_compare[j]) > 0

TopNSortedDescendingWithoutZero ==
    (pc = "done" /\ NoZeroVector) => TopNSortedDescending

-----------------------------------------------------------------------------
(* data_preparation.calculate_book_score *)

MaxBooks == 2

\* The book ids a user's list may name; the item table holds the ItemIds only.
BookIds == {1, 2, 3}
ItemIds == {1, 2}

\* An item's row: its vector and its priority as get_items_df left it
ItemRows == [vector : GenreVectors, priority : {None, <<0>>, <<1>>}]

\* A user's row: the user's vector and the list of the user's books
UserRows == [vector : GenreVectors, book_id : SeqsUpTo(BookIds, MaxBooks)]

\* sklearn's cosine_similarity(u, v)[0][0]: a zero norm is replaced by 1
cosine_similarity(u, v) ==
    IF norm2(u) = 0 \/ norm2(v) = 0 THEN Number(0) ELSE Ratio(dot(u, v), norm2(u) * norm2(v))

\* The loop body with the priority test left out
book_score_similarity_only(user_vector, item) == cosine_similarity(user_vector, item.vector)

\* The loop body for one book found in df_items, its priority being a number
book_score(user_vector, item) ==
    IF item.priority[1] > 0 THEN Number(item.priority[1])
    ELSE cosine_similarity(user_vector, item.vector)

\* books.update({book_id: score})
update(m, k, v) ==
    IF \E i \in DOMAIN m : m[i][1] = k
    THEN [i \in DOMAIN m |-> IF m[i][1] = k THEN <<k, v>> ELSE m[i]]
    ELSE Append(m, <<k, v>>)

\* The whole call.  item["priority"].item() raises on a book_id df_items lacks;
\* None > 0 raises.
calculate_book_score(r, items) ==
    LET RECURSIVE L(_)
        L(k) == IF k = 0 THEN [status |-> "ok", value |-> <<>>]
                ELSE LET sofar == L(k - 1)
                         book == r.book_id[k]
                     IN  IF sofar.status = "error" THEN sofar
                         ELSE IF book \notin DOMAIN items THEN Raised("ValueError")
                         ELSE IF items[book].priority = None THEN Raised("TypeError")
                         ELSE [status |-> "ok",
                               value |-> update(sofar.value, book, book_score(r.vector, items[book]))]
    IN  L(Len(r.book_id))

InitScore ==
    /\ call = "calculate_book_score"
    /\ pc = "start"
    /\ row \in UserRows
    /\ df_items \in [ItemIds -> ItemRows]
    /\ books = Idle
    /\ IdleDivide /\ IdleSampler /\ IdleReformat /\ IdlePriority /\ IdleProba /\ IdleSimilar

CalculateBookScore ==
    /\ call = "calculate_book_score"
    /\ pc = "start"
    /\ books' = calculate_book_score(row, df_items)
    /\ pc' = "done"
    /\ UNCHANGED <<call, row, df_items, varsDivide, varsSampler, varsReformat, varsPriority, varsProba,
                   varsSimilar>>

NextScore == CalculateBookScore

SpecScore == InitScore /\ [][NextScore]_vars

\* Where a book first stands in the user's list
FirstIndex(list, b) == CHOOSE i \in DOMAIN list : list[i] = b /\ \A j \in 1..(i - 1) : list[j] # b

\* C7: every book of the user that the item table holds is mapped to the
\* item's priority when that is > 0 (a priority of 1 gives exactly 1 whatever the
\* vectors) and else to the cosine similarity of the user's and the item's
\* vectors; the mapping holds exactly the user's books, in the order of the list.
BookScoreRule ==
    pc = "done" =>
        /\ books.status = "error" =>
               \E i \in DOMAIN row.book_id :
                   \/ row.book_id[i] \notin ItemIds
                   \/ df_items[row.book_id[i]].priority = None
        /\ books.status = "ok" =>
            LET m == books.value
            IN  /\ {m[k][1] : k \in DOMAIN m} = Range(row.book_id)
                /\ \A k, l \in DOMAIN m :
                       k < l => FirstIndex(row.book_id, m[k][1]) < FirstIndex(row.book_id, m[l][1])
                /\ \A k \in DOMAIN m :
                       LET item == df_items[m[k][1]]
                           u == row.vector
                           v == item.vector
                       IN  IF item.priority = <<1>> THEN m[k][2] = Number(1)
                           ELSE IF norm2(u) = 0 \/ norm2(v) = 0 THEN eq(m[k][2], Number(0))
                           ELSE /\ ~m[k][2].nan
                                /\ m[k][2].numer * m[k][2].numer * norm2(u) * norm2(v)
                                       = dot(u, v) * dot(u, v) * m[k][2].denom2

\* A priority book scored 1 although its vector is orthogonal to the user's,
\* listed before a book without priority that is scored by its similarity.
PriorityOverridesSimilaritySeen ==
    /\ pc = "done"
    /\ books.status = "ok"
    /\ Len(books.value) = 2
    /\ df_items[books.value[1][1]].priority = <<1>>
    /\ norm2(row.vector) > 0
    /\ norm2(df_items[books.value[1][1]].vector) > 0
    /\ dot(row.vector, df_items[books.value[1][1]].vector) = 0
    /\ books.value[1][2] = Number(1)
    /\ books.value[1][1] > books.value[2][1]
    /\ df_items[books.value[2][1]].priority = <<0>>
    /\ lt(Number(0), books.value[2][2])
    /\ lt(books.value[2][2], Number(1))

-----------------------------------------------------------------------------
(* The pipeline's functions together: any one of them, called once *)

Init ==
    \/ InitDivide \/ InitSampler \/ InitReformat \/ InitPriority \/ InitProba
    \/ InitSimilar \/ InitScore

Next ==
    \/ Divide \/ Process \/ Reprocess \/ Reformat \/ GetItemsDf \/ GetUsersDf
    \/ MatrixCosineSimilarity \/ CalculateBookScore

Spec == Init /\ [][Next]_vars

====
